---- MODULE Spec2Model ----
(***************************************************************************)
(* A model of gst-plugin/src/structure.rs: OwnedStructure (the owning      *)
(* handle), Structure (the shared core type), FieldIterator and Iter.      *)
(*                                                                         *)
(* The structure store itself, gst_structure_..., is the GStreamer library. *)
(* Each primitive is an operator named after the extern and placed at the  *)
(* call site of structure.rs; it computes what the library computes on a   *)
(* structure value [name, fields], fields being a sequence of              *)
(* [f |-> field name, v |-> value] records in storage order.               *)
(***************************************************************************)
EXTENDS Integers, Sequences, FiniteSets, TLC

\* ------------------------------------------------------------------ bounds
MaxHandles == 2
MaxListLen == 3
MaxIterFields == 3

\* ------------------------------------------------------------- input sets
StructNames == {"test", "caps"}
FieldNames == {"f1", "f2"}
IterFieldNames == {"f1", "f2", "f3", "f4"}

\* A value is a runtime type tag and a payload.  Payloads are codes:
\* for "str", 1 stands for "abc" and 2 for "bcd".
IntVal(n) == [ty |-> "i32", val |-> n]
StrVal(n) == [ty |-> "str", val |-> n]
Values == {IntVal(1), IntVal(2), StrVal(1)}
ValueTypes == {"i32", "str"}

\* The null pointer; also "no handle".
NULL == 0
\* Option::None of a value, and of a field name.
NoValue == [ty |-> "none", val |-> 0]
NoName == ""

Addrs == 1..MaxHandles
Hids == 1..MaxHandles

VARIABLES
    heap,      \* the allocator's cells: address -> [st, name, fields, coreFrees, extFrees]
    handles,   \* OwnedStructure values: id -> [st, ptr, from]
    ext,       \* raw pointers handed out by into_ptr and owned outside
    it,        \* the iterator in use: [kind, structure, idx, n_fields]
    hist,      \* what the iterator has yielded so far: [n0, fwd, bwd]
    last,      \* the operation that ran last, its arguments and its result
    view       \* the borrowed view in use: [st, ptr, mutable, live0, owner0, made]

vars == <<heap, handles, ext, it, hist, last, view>>

\* ------------------------------------------------------ sequence helpers
Range(s) == {s[i] : i \in 1..Len(s)}

FieldNamesOf(fields) == [i \in 1..Len(fields) |-> fields[i].f]

IndexOf(fields, name) ==
    IF \E i \in 1..Len(fields) : fields[i].f = name
    THEN CHOOSE i \in 1..Len(fields) : fields[i].f = name
    ELSE 0

Distinct(s) == \A i, j \in 1..Len(s) : i # j => s[i] # s[j]

RECURSIVE SeqsUpTo(_, _)
SeqsUpTo(S, n) ==
    IF n = 0 THEN {<<>>}
    ELSE LET shorter == SeqsUpTo(S, n - 1)
         IN  shorter \cup {Append(s, x) : s \in {t \in shorter : Len(t) = n - 1}, x \in S}

Reverse(s) == [i \in 1..Len(s) |-> s[Len(s) + 1 - i]]

\* ------------------------------------------- the structure store (GStreamer)
\* A cell counts the gst_structure_free calls made on it, by OwnedStructure's
\* drop (coreFrees) and by the external owner of a raw pointer (extFrees).
EmptyCell == [st |-> "unalloc", name |-> "", fields |-> <<>>, coreFrees |-> 0, extFrees |-> 0]

\* gst_structure_new_empty: a structure value with the name and no fields.
gst_structure_new_empty(name) == [name |-> name, fields |-> <<>>]

\* gst_structure_take_value: the field of that name gets the value in place,
\* a new name is appended.
gst_structure_take_value(s, name, value) ==
    LET i == IndexOf(s.fields, name)
    IN  IF i # 0
        THEN [s EXCEPT !.fields[i] = [f |-> name, v |-> value]]
        ELSE [s EXCEPT !.fields = Append(@, [f |-> name, v |-> value])]

\* gst_structure_get_value: the stored value, or NULL (NoValue here).
gst_structure_get_value(s, name) ==
    LET i == IndexOf(s.fields, name)
    IN  IF i = 0 THEN NoValue ELSE s.fields[i].v

gst_structure_has_field(s, name) == IndexOf(s.fields, name) # 0

gst_structure_remove_field(s, name) ==
    [s EXCEPT !.fields = SelectSeq(@, LAMBDA e : e.f # name)]

gst_structure_remove_all_fields(s) == [s EXCEPT !.fields = <<>>]

gst_structure_n_fields(s) == Len(s.fields)

\* gst_structure_nth_field_name: NULL past the end (idx is 0-based).
gst_structure_nth_field_name(s, idx) ==
    IF idx < Len(s.fields) THEN s.fields[idx + 1].f ELSE NoName

gst_structure_get_name(s) == s.name

\* gst_structure_copy: a deep copy, name and every field with its value.
gst_structure_copy(s) == [name |-> s.name, fields |-> s.fields]

\* gst_value_compare(v1, v2) = GST_VALUE_EQUAL: same type tag, same payload.
gst_value_equal(v1, v2) == v1.ty = v2.ty /\ v1.val = v2.val

\* gst_structure_is_equal: the same pointer, or the same name, the same number
\* of fields, and every field of the first is in the second with an equal value.
gst_structure_is_equal(p1, s1, p2, s2) ==
    \/ p1 = p2
    \/ /\ s1.name = s2.name
       /\ Len(s1.fields) = Len(s2.fields)
       /\ \A i \in 1..Len(s1.fields) :
            /\ gst_structure_has_field(s2, s1.fields[i].f)
            /\ gst_value_equal(s1.fields[i].v, gst_structure_get_value(s2, s1.fields[i].f))

\* --------------------------------------------------- the text codec (GStreamer)
\* A text is a sequence of tokens: "test, f1=(int)1, f2=(string)abc;" is
\* <<"test", ",", "f1", "=", "(int)", "1", ",", "f2", "=", "(string)", "abc", ";">>.
StrTexts == <<"abc", "bcd">>
IntTexts == <<"1", "2">>
Punct == {",", "=", ";", "(int)", "(string)", "(bogus)"}

\* gst_structure_validate_name: a name starts with a letter.
IsNameToken(t) == t # "" /\ t \notin Punct /\ t \notin Range(IntTexts)

TypeToken(ty) == IF ty = "i32" THEN "(int)" ELSE "(string)"
ValueToken(v) == IF v.ty = "i32" THEN IntTexts[v.val] ELSE StrTexts[v.val]

CodeOf(texts, t) == CHOOSE k \in 1..Len(texts) : texts[k] = t

\* gst_value_deserialize of token t as the type named by type token ty
\* ("" when the text gives no type: an integer if it reads as one, else a string).
DeserializeValue(ty, t) ==
    CASE ty = "(int)" /\ t \in Range(IntTexts) -> IntVal(CodeOf(IntTexts, t))
      [] ty = "(string)" /\ t \in Range(StrTexts) -> StrVal(CodeOf(StrTexts, t))
      [] ty = "" /\ t \in Range(IntTexts) -> IntVal(CodeOf(IntTexts, t))
      [] ty = "" /\ t \in Range(StrTexts) -> StrVal(CodeOf(StrTexts, t))
      [] OTHER -> NoValue

\* A field name is written as it is, without quotes or escapes, so a reader
\* sees a name that holds a space as two words: "a b" reads as "a", "b".
Words(f) == IF f = "a b" THEN <<"a", "b">> ELSE <<f>>

RECURSIVE SerializeFields(_)
SerializeFields(fields) ==
    IF fields = <<>> THEN <<>>
    ELSE <<",">> \o Words(Head(fields).f)
         \o <<"=", TypeToken(Head(fields).v.ty), ValueToken(Head(fields).v)>>
         \o SerializeFields(Tail(fields))

\* gst_structure_to_string: the name, ", name=(type)value" per field in storage
\* order, and a closing ";".
gst_structure_to_string(s) == <<s.name>> \o SerializeFields(s.fields) \o <<";">>

ParseFailed == [ok |-> FALSE, s |-> [name |-> "", fields |-> <<>>]]

\* The fields of a text after its name: each is ", name=[(type)]value" and is
\* set on the structure as gst_structure_take_value sets it; ";" or the end of
\* the text ends the structure.
RECURSIVE ParseFields(_, _)
ParseFields(s, toks) ==
    IF toks = <<>> \/ Head(toks) = ";" THEN [ok |-> TRUE, s |-> s]
    ELSE IF Head(toks) # "," \/ Len(toks) < 4 THEN ParseFailed
    ELSE IF ~IsNameToken(toks[2]) \/ toks[3] # "=" THEN ParseFailed
    ELSE LET typed == toks[4] \in {"(int)", "(string)", "(bogus)"}
             ty == IF typed THEN toks[4] ELSE ""
             at == IF typed THEN 5 ELSE 4
         IN  IF Len(toks) < at THEN ParseFailed
             ELSE LET v == DeserializeValue(ty, toks[at])
                  IN  IF v = NoValue THEN ParseFailed
                      ELSE ParseFields(gst_structure_take_value(s, toks[2], v),
                                       SubSeq(toks, at + 1, Len(toks)))

\* gst_structure_from_string: NULL (ok = FALSE) when the text is not well-formed.
gst_structure_from_string(toks) ==
    IF toks = <<>> \/ ~IsNameToken(Head(toks)) THEN ParseFailed
    ELSE ParseFields(gst_structure_new_empty(Head(toks)), Tail(toks))

\* The texts from_string is given.
Texts ==
    { <<"test">>,
      <<"test", ";">>,
      <<"test", ",", "f1", "=", "(int)", "1", ";">>,
      <<"caps", ",", "f1", "=", "(string)", "abc", ",", "f2", "=", "(int)", "2", ";">>,
      <<"caps", ",", "f2", "=", "1">>,
      <<"test", ",", "f1", "=", "(int)", "1", ",", "f1", "=", "(string)", "abc", ";">>,
      <<>>,
      <<",", "f1", "=", "(int)", "1", ";">>,
      <<"test", ",", "f1">>,
      <<"test", ",", "f1", "=", "(int)", "abc", ";">>,
      <<"test", ",", "f1", "=", "(bogus)", "1", ";">>,
      <<"test", "f1", "=", "(int)", "1", ";">> }

\* ------------------------------------------------------------ the allocator
Content(a) == [name |-> heap[a].name, fields |-> heap[a].fields]

\* The address the allocator hands out next: one never used before.
FreshAddr ==
    IF \E a \in Addrs : heap[a].st = "unalloc"
    THEN CHOOSE a \in Addrs : /\ heap[a].st = "unalloc"
                              /\ \A b \in Addrs : b < a => heap[b].st # "unalloc"
    ELSE NULL

\* The heap after the store allocates structure value s at address a.
Allocated(h, a, s) == [h EXCEPT ![a].st = "live", ![a].name = s.name, ![a].fields = s.fields]

\* The heap after the store writes structure value s to the cell at address a.
Stored(h, a, s) == [h EXCEPT ![a].name = s.name, ![a].fields = s.fields]

\* gst_structure_free: the cell is released; who is "core" or "ext".
gst_structure_free(h, a, who) ==
    [h EXCEPT ![a].st = "freed", ![a].name = "", ![a].fields = <<>>,
              ![a].coreFrees = IF who = "core" THEN @ + 1 ELSE @,
              ![a].extFrees = IF who = "ext" THEN @ + 1 ELSE @]

\* ----------------------------------------------------- the value collaborator
\* What set() is given: a native value of kind k ("i32", "&str", "String")
\* with payload p, or a Value.
Natives == {[k |-> "i32", p |-> 1], [k |-> "i32", p |-> 2],
            [k |-> "&str", p |-> 1], [k |-> "String", p |-> 1]}

\* Into<Value>: a Value is itself, an i32 is an integer value, a &str or a
\* String is a string value.
Into_Value(x) ==
    IF "k" \in DOMAIN x
    THEN (IF x.k = "i32" THEN IntVal(x.p) ELSE StrVal(x.p))
    ELSE x

\* Value::clone: an equal value of its own.
Value_clone(v) == [ty |-> v.ty, val |-> v.val]

\* ValueRef::from_ptr of a non-null stored value: a reference to it.
ValueRef_from_ptr(v) == v

\* TypedValueRef::<T>::from_value_ref: the reference when the runtime type tag
\* is T's, None otherwise.
TypedValueRef_from_value_ref(T, v) == IF v.ty = T THEN v ELSE NoValue

\* ------------------------------------------------------ CString::new(..).unwrap()
\* The strings with a NUL byte inside, written <NUL> here, and what a C string
\* reader sees of each: the bytes before the NUL.
NulStrings == {"f1<NUL>x", "te<NUL>st"}

UpToNul(str) == IF str = "f1<NUL>x" THEN "f1" ELSE IF str = "te<NUL>st" THEN "te" ELSE str

\* Err(NulError) of CString::new.
NulError == "<NulError>"

\* A conversion that cuts the string at its first NUL instead of failing.
CString_new_truncating(str) == UpToNul(str)

\* CString::new: the string itself, or NulError when a NUL byte is inside.
CString_new(str) == IF str \in NulStrings THEN NulError ELSE str

\* unwrap of the conversion panics: the method returns nothing and the caller aborts.
Panics(cstr) == cstr = NulError

\* The same for a text, a sequence of tokens: NulError when a token holds a NUL.
HasNul(text) == \E i \in 1..Len(text) : Panics(CString_new(text[i]))

CString_new_text(text) ==
    IF HasNul(text) THEN <<NulError>> ELSE [i \in 1..Len(text) |-> CString_new(text[i])]

PanicsText(cstr) == cstr = <<NulError>>

\* What a value-returning method "returns" when it panicked.
Panicked == [ty |-> "panic", val |-> 0]

\* ------------------------------------------------- Structure (the core type)
to_string(s) == gst_structure_to_string(s)

get_value(s, name) ==
    LET name_cstr == CString_new(name)
    IN  IF Panics(name_cstr) THEN Panicked
        ELSE LET value == gst_structure_get_value(s, name_cstr)
             IN  IF value = NoValue THEN NoValue ELSE ValueRef_from_ptr(value)

\* A get that does not check the type.
get_unchecked(s, name, T) == get_value(s, name)

get(s, name, T) ==
    LET r == get_value(s, name)
    IN  IF r = Panicked THEN Panicked
        ELSE IF r = NoValue THEN NoValue ELSE TypedValueRef_from_value_ref(T, r)

\* A set that removes the field before it stores the value.
set_moves_last(s, name, value) ==
    gst_structure_take_value(gst_structure_remove_field(s, name), name, Into_Value(value))

\* set: on a panic of the conversion the store is not called and the
\* structure is as it was.
set(s, name, value) ==
    LET name_cstr == CString_new(name)
    IN  IF Panics(name_cstr) THEN s
        ELSE gst_structure_take_value(s, name_cstr, Into_Value(value))

get_name(s) == gst_structure_get_name(s)

\* has_field: on a panic of the conversion nothing is returned (FALSE here).
has_field(s, field) ==
    LET cstr == CString_new(field)
    IN  IF Panics(cstr) THEN FALSE ELSE gst_structure_has_field(s, cstr)

\* A remove_field that fills the gap with the last field.
remove_field_swap(s, field) ==
    LET i == IndexOf(s.fields, field)
        n == Len(s.fields)
    IN  IF i = 0 THEN s
        ELSE [s EXCEPT !.fields = [k \in 1..(n - 1) |-> IF k = i THEN s.fields[n] ELSE s.fields[k]]]

remove_field(s, field) ==
    LET cstr == CString_new(field)
    IN  IF Panics(cstr) THEN s ELSE gst_structure_remove_field(s, cstr)

\* A remove_all_fields that puts a fresh structure without a name in place.
remove_all_fields_unnamed(s) == gst_structure_new_empty("")

remove_all_fields(s) == gst_structure_remove_all_fields(s)

\* A get_nth_field_name that clamps the index to the last field.
get_nth_field_name_clamped(s, idx) ==
    IF s.fields = <<>> THEN NoName
    ELSE IF idx < Len(s.fields) THEN s.fields[idx + 1].f
    ELSE s.fields[Len(s.fields)].f

get_nth_field_name(s, idx) == gst_structure_nth_field_name(s, idx)

n_fields(s) == gst_structure_n_fields(s)

\* An eq that compares the fields position by position.
eq_positional(p1, s1, p2, s2) == s1.name = s2.name /\ s1.fields = s2.fields

\* PartialEq for Structure; p1 and p2 are the addresses of the two structures.
eq(p1, s1, p2, s2) == gst_structure_is_equal(p1, s1, p2, s2)

\* PartialEq for OwnedStructure: self.as_ref().eq(other).
OwnedStructure_eq(p1, s1, p2, s2) == eq(p1, s1, p2, s2)

\* ------------------------------------------------------------- FieldIterator
\* idx and n_fields are u32.  A subtraction below zero panics in a debug build
\* and wraps to 2^32 - (b - a) in a release build; both are the one value
\* Wrapped here.  An addition stays far below 2^32 for the field counts modelled.
Wrapped == -1

u32_sub(a, b) == IF a >= b THEN a - b ELSE Wrapped

u32_add(a, b) == a + b

NoIter == [kind |-> "none", structure |-> NULL, idx |-> 0, n_fields |-> 0]

\* FieldIterator::new over the structure s at address p.
FieldIterator_new(p, s) ==
    [kind |-> "FieldIterator", structure |-> p, idx |-> 0, n_fields |-> n_fields(s)]

\* A next that starts over from the first field when it reaches the end.
next_restarts(itr, s) ==
    IF itr.idx >= itr.n_fields THEN [it |-> [itr EXCEPT !.idx = 0], ret |-> NoName]
    ELSE LET field_name == get_nth_field_name(s, itr.idx)
         IN  IF field_name # NoName
             THEN [it |-> [itr EXCEPT !.idx = u32_add(@, 1)], ret |-> field_name]
             ELSE [it |-> itr, ret |-> NoName]

\* A next that stops only when idx is above n_fields.
next_off_by_one(itr, s) ==
    IF itr.idx > itr.n_fields THEN [it |-> itr, ret |-> NoName]
    ELSE LET field_name == get_nth_field_name(s, itr.idx)
         IN  IF field_name # NoName
             THEN [it |-> [itr EXCEPT !.idx = u32_add(@, 1)], ret |-> field_name]
             ELSE [it |-> itr, ret |-> NoName]

\* FieldIterator::next: the iterator afterwards and the name returned (NoName: None).
next(itr, s) ==
    IF itr.idx >= itr.n_fields THEN [it |-> itr, ret |-> NoName]
    ELSE LET field_name == get_nth_field_name(s, itr.idx)
         IN  IF field_name # NoName
             THEN [it |-> [itr EXCEPT !.idx = u32_add(@, 1)], ret |-> field_name]
             ELSE [it |-> itr, ret |-> NoName]

\* A size_hint that forgets the names already taken from the front.
size_hint_total(itr) == <<itr.n_fields, itr.n_fields>>

\* FieldIterator::size_hint: <<lower, upper>>, the upper bound always Some.
size_hint(itr) ==
    IF itr.idx = itr.n_fields THEN <<0, 0>>
    ELSE LET remaining == u32_sub(itr.n_fields, itr.idx)
         IN  <<remaining, remaining>>

\* A next_back that reads the name before it moves the cursor.
next_back_stale(itr, s) ==
    IF itr.idx = itr.n_fields THEN [it |-> itr, ret |-> NoName]
    ELSE [it |-> [itr EXCEPT !.n_fields = u32_sub(@, 1)],
          ret |-> get_nth_field_name(s, itr.n_fields)]

\* FieldIterator::next_back.
next_back(itr, s) ==
    IF itr.idx = itr.n_fields THEN [it |-> itr, ret |-> NoName]
    ELSE LET moved == [itr EXCEPT !.n_fields = u32_sub(@, 1)]
         IN  [it |-> moved, ret |-> get_nth_field_name(s, moved.n_fields)]

\* ---------------------------------------------------------------------- Iter
\* Iter::new: an Iter holds a FieldIterator.
Iter_new(p, s) == [FieldIterator_new(p, s) EXCEPT !.kind = "Iter"]

\* Iter::next: the name the FieldIterator gives, paired with get_value of it;
\* unwrap aborts when the lookup is None.
Iter_next(itr, s) ==
    LET r == next(itr, s)
    IN  IF r.ret # NoName
        THEN [it |-> r.it, ret |-> r.ret, v |-> get_value(s, r.ret),
              abort |-> get_value(s, r.ret) = NoValue]
        ELSE [it |-> r.it, ret |-> NoName, v |-> NoValue, abort |-> FALSE]

Iter_size_hint(itr) == size_hint(itr)

\* An Iter::next_back that asks the FieldIterator for its next name.
Iter_next_back_front(itr, s) ==
    LET r == next(itr, s)
    IN  IF r.ret # NoName
        THEN [it |-> r.it, ret |-> r.ret, v |-> get_value(s, r.ret),
              abort |-> get_value(s, r.ret) = NoValue]
        ELSE [it |-> r.it, ret |-> NoName, v |-> NoValue, abort |-> FALSE]

Iter_next_back(itr, s) ==
    LET r == next_back(itr, s)
    IN  IF r.ret # NoName
        THEN [it |-> r.it, ret |-> r.ret, v |-> get_value(s, r.ret),
              abort |-> get_value(s, r.ret) = NoValue]
        ELSE [it |-> r.it, ret |-> NoName, v |-> NoValue, abort |-> FALSE]

\* Iterator::collect on s.fields(): next() until it returns None.
RECURSIVE CollectFrom(_, _)
CollectFrom(itr, s) ==
    LET r == next(itr, s)
    IN  IF r.ret = NoName THEN <<>> ELSE <<r.ret>> \o CollectFrom(r.it, s)

\* s.fields().rev().collect(): next_back() until it returns None.
RECURSIVE CollectBackFrom(_, _)
CollectBackFrom(itr, s) ==
    LET r == next_back(itr, s)
    IN  IF r.ret = NoName THEN <<>> ELSE <<r.ret>> \o CollectBackFrom(r.it, s)

fields(p, s) == FieldIterator_new(p, s)

iter(p, s) == Iter_new(p, s)

\* ------------------------------------------------------------ OwnedStructure
\* A handle slot: st is "unused", "live", "dropped" (its scope ended and Drop
\* ran) or "forgotten" (consumed by into_ptr); ptr is the field .0; from is
\* the handle it was copied from, if any.
NoHandle == [st |-> "unused", ptr |-> NULL, from |-> NULL]

Live(h) == handles[h].st = "live"

FreshHid ==
    IF \E h \in Hids : handles[h].st = "unused"
    THEN CHOOSE h \in Hids : /\ handles[h].st = "unused"
                             /\ \A g \in Hids : g < h => handles[g].st # "unused"
    ELSE NULL

CanCreate == FreshHid # NULL /\ FreshAddr # NULL

L0 == [op |-> "init", h |-> NULL, h2 |-> NULL, f |-> NoName, ty |-> "", v |-> NoValue,
       ret |-> NoValue, b |-> FALSE, list |-> <<>>, n |-> 0, of |-> ""]

Did(op, h) == [L0 EXCEPT !.op = op, !.h = h]

\* The record of a call of method of that panicked in converting name.
Aborted(of, h, name) == [L0 EXCEPT !.op = "abort", !.h = h, !.of = of, !.f = name]

\* OwnedStructure(ptr, PhantomData): the new handle wraps the pointer.
Wrapped_in(hs, h, ptr, from) ==
    [hs EXCEPT ![h] = [st |-> "live", ptr |-> ptr, from |-> from]]

new_empty(name) ==
    LET name_cstr == CString_new(name)
    IN  /\ ~Panics(name_cstr) => CanCreate
        /\ IF Panics(name_cstr)
           THEN /\ last' = Aborted("new_empty", NULL, name)
                /\ UNCHANGED <<heap, handles>>
           ELSE /\ heap' = Allocated(heap, FreshAddr, gst_structure_new_empty(name_cstr))
                /\ handles' = Wrapped_in(handles, FreshHid, FreshAddr, NULL)
                /\ last' = [Did("new_empty", FreshHid) EXCEPT !.f = name]
        /\ UNCHANGED <<view, ext, it, hist>>

\* A loop that walks the list from its end.
RECURSIVE SetEach_reversed(_, _)
SetEach_reversed(s, values) ==
    IF values = <<>> THEN s
    ELSE SetEach_reversed(set(s, values[Len(values)].f, Value_clone(values[Len(values)].v)),
                          SubSeq(values, 1, Len(values) - 1))

\* A loop that skips an entry whose name is already a field.
RECURSIVE SetEach_keeps_first(_, _)
SetEach_keeps_first(s, values) ==
    IF values = <<>> THEN s
    ELSE IF has_field(s, Head(values).f) THEN SetEach_keeps_first(s, Tail(values))
    ELSE SetEach_keeps_first(set(s, Head(values).f, Value_clone(Head(values).v)), Tail(values))

\* The loop of OwnedStructure::new: set each entry in the listed order.
RECURSIVE SetEach(_, _)
SetEach(s, values) ==
    IF values = <<>> THEN s
    ELSE SetEach(set(s, Head(values).f, Value_clone(Head(values).v)), Tail(values))

new(name, values) ==
    /\ CanCreate
    /\ heap' = Allocated(heap, FreshAddr, SetEach(gst_structure_new_empty(name), values))
    /\ handles' = Wrapped_in(handles, FreshHid, FreshAddr, NULL)
    /\ last' = [Did("new", FreshHid) EXCEPT !.f = name, !.list = values]
    /\ UNCHANGED <<view, ext, it, hist>>

\* A from_string that takes the pointer of a parsed structure for the failure:
\* it returns None and the structure stays allocated.
from_string_none(text) ==
    LET structure == gst_structure_from_string(text)
    IN  /\ structure.ok => CanCreate
        /\ heap' = IF structure.ok THEN Allocated(heap, FreshAddr, structure.s) ELSE heap
        /\ last' = [Did("from_string", NULL) EXCEPT !.b = FALSE, !.list = text]
        /\ UNCHANGED <<view, handles, ext, it, hist>>

\* A from_string that wraps whatever the store returns, NULL included.
from_string_unchecked(text) ==
    LET structure == gst_structure_from_string(text)
    IN  /\ CanCreate
        /\ heap' = IF structure.ok THEN Allocated(heap, FreshAddr, structure.s) ELSE heap
        /\ handles' = Wrapped_in(handles, FreshHid, IF structure.ok THEN FreshAddr ELSE NULL, NULL)
        /\ last' = [Did("from_string", FreshHid) EXCEPT !.b = TRUE, !.list = text]
        /\ UNCHANGED <<view, ext, it, hist>>

\* from_string: None, and no handle, when the store returns NULL.
from_string(text) ==
    LET cstr == CString_new_text(text)
        structure == gst_structure_from_string(cstr)
    IN  /\ (~PanicsText(cstr) /\ structure.ok) => CanCreate
        /\ IF PanicsText(cstr)
           THEN /\ last' = [Aborted("from_string", NULL, NoName) EXCEPT !.list = text]
                /\ UNCHANGED <<heap, handles>>
           ELSE IF ~structure.ok
           THEN /\ last' = [Did("from_string", NULL) EXCEPT !.b = FALSE, !.list = text]
                /\ UNCHANGED <<view, heap, handles>>
           ELSE /\ heap' = Allocated(heap, FreshAddr, structure.s)
                /\ handles' = Wrapped_in(handles, FreshHid, FreshAddr, NULL)
                /\ last' = [Did("from_string", FreshHid) EXCEPT !.b = TRUE, !.list = text]
        /\ UNCHANGED <<view, ext, it, hist>>

\* into_ptr without mem::forget: self goes out of scope and Drop runs.
into_ptr_drops(h) ==
    /\ Live(h)
    /\ heap' = gst_structure_free(heap, handles[h].ptr, "core")
    /\ handles' = [handles EXCEPT ![h].st = "forgotten"]
    /\ ext' = ext \cup {handles[h].ptr}
    /\ last' = [Did("into_ptr", h) EXCEPT !.n = handles[h].ptr]
    /\ UNCHANGED <<view, it, hist>>

\* into_ptr: mem::forget(self), so Drop does not run; the pointer is returned.
into_ptr(h) ==
    /\ Live(h)
    /\ handles' = [handles EXCEPT ![h].st = "forgotten"]
    /\ ext' = ext \cup {handles[h].ptr}
    /\ last' = [Did("into_ptr", h) EXCEPT !.n = handles[h].ptr]
    /\ UNCHANGED <<view, heap, it, hist>>

\* A Clone that copies the pointer, not the structure.
clone_shallow(h) ==
    /\ Live(h)
    /\ CanCreate
    /\ handles' = Wrapped_in(handles, FreshHid, handles[h].ptr, h)
    /\ last' = [Did("clone", FreshHid) EXCEPT !.h2 = h]
    /\ UNCHANGED <<view, heap, ext, it, hist>>

\* Clone for OwnedStructure: a handle on gst_structure_copy of the structure.
clone(h) ==
    /\ Live(h)
    /\ CanCreate
    /\ heap' = Allocated(heap, FreshAddr, gst_structure_copy(Content(handles[h].ptr)))
    /\ handles' = Wrapped_in(handles, FreshHid, FreshAddr, h)
    /\ last' = [Did("clone", FreshHid) EXCEPT !.h2 = h]
    /\ UNCHANGED <<view, ext, it, hist>>

\* ToOwned for Structure, on the structure h dereferences to.
to_owned(h) ==
    /\ Live(h)
    /\ CanCreate
    /\ heap' = Allocated(heap, FreshAddr, gst_structure_copy(Content(handles[h].ptr)))
    /\ handles' = Wrapped_in(handles, FreshHid, FreshAddr, h)
    /\ last' = [Did("to_owned", FreshHid) EXCEPT !.h2 = h]
    /\ UNCHANGED <<view, ext, it, hist>>

\* A Drop that does not call gst_structure_free.
drop_leaks(h) ==
    /\ Live(h)
    /\ handles' = [handles EXCEPT ![h].st = "dropped"]
    /\ last' = Did("drop", h)
    /\ UNCHANGED <<view, heap, ext, it, hist>>

\* Drop for OwnedStructure: runs once, when the live handle goes out of scope.
drop(h) ==
    /\ Live(h)
    /\ heap' = gst_structure_free(heap, handles[h].ptr, "core")
    /\ handles' = [handles EXCEPT ![h].st = "dropped"]
    /\ last' = Did("drop", h)
    /\ UNCHANGED <<view, ext, it, hist>>

\* The external owner of a pointer returned by into_ptr frees it, once.
ExternalFree(a) ==
    /\ a \in ext
    /\ heap' = gst_structure_free(heap, a, "ext")
    /\ ext' = ext \ {a}
    /\ last' = [Did("external_free", NULL) EXCEPT !.n = a]
    /\ UNCHANGED <<view, handles, it, hist>>

\* ------------------------------------------------------------------- views
\* The allocations that are live, and who owns each: the handle that points to
\* it, "ext" for a raw pointer held outside, "none" for a cell not live.
LiveAllocs == {a \in Addrs : heap[a].st = "live"}

OwnerOf(a) ==
    IF heap[a].st # "live" THEN "none"
    ELSE IF a \in ext THEN "ext"
    ELSE IF \E h \in Hids : handles[h].st = "live" /\ handles[h].ptr = a
    THEN "handle"
    ELSE "nobody"

Owners == [a \in Addrs |-> OwnerOf(a)]

\* A view is a reference: st is "none", "live" or "ended", ptr the allocation
\* it refers to.  live0 and owner0 keep what was allocated, and owned by whom,
\* when the view was made; made keeps the handles to_owned returned on it.
NoView == [st |-> "none", ptr |-> NULL, mutable |-> FALSE, live0 |-> {},
           owner0 |-> [a \in Addrs |-> "none"], made |-> {}]

ViewOn(ptr, mutable) ==
    [st |-> "live", ptr |-> ptr, mutable |-> mutable, live0 |-> LiveAllocs,
     owner0 |-> Owners, made |-> {}]

\* Structure::from_borrowed_ptr on a raw pointer that is NULL or refers to a
\* live allocation: assert!(!ptr.is_null()) aborts on NULL.
from_borrowed_ptr(ptr) ==
    /\ view.st # "live"
    /\ ptr # NULL => heap[ptr].st = "live"
    /\ IF ptr = NULL
       THEN view' = view /\ last' = Did("abort", NULL)
       ELSE view' = ViewOn(ptr, FALSE) /\ last' = [Did("from_borrowed_ptr", NULL) EXCEPT !.n = ptr]
    /\ UNCHANGED <<heap, handles, ext, it, hist>>

from_borrowed_mut_ptr(ptr) ==
    /\ view.st # "live"
    /\ ptr # NULL => heap[ptr].st = "live"
    /\ IF ptr = NULL
       THEN view' = view /\ last' = Did("abort", NULL)
       ELSE view' = ViewOn(ptr, TRUE) /\ last' = [Did("from_borrowed_mut_ptr", NULL) EXCEPT !.n = ptr]
    /\ UNCHANGED <<heap, handles, ext, it, hist>>

\* Deref for OwnedStructure (also as_ref and borrow): &*self.0.
deref(h) ==
    /\ view.st # "live"
    /\ Live(h)
    /\ view' = ViewOn(handles[h].ptr, FALSE)
    /\ last' = Did("deref", h)
    /\ UNCHANGED <<heap, handles, ext, it, hist>>

\* DerefMut for OwnedStructure (also as_mut and borrow_mut): &mut *self.0.
deref_mut(h) ==
    /\ view.st # "live"
    /\ Live(h)
    /\ view' = ViewOn(handles[h].ptr, TRUE)
    /\ last' = Did("deref_mut", h)
    /\ UNCHANGED <<heap, handles, ext, it, hist>>

\* The methods of Structure, called on the view.
ViewSet(name, value) ==
    /\ view.st = "live" /\ view.mutable
    /\ heap' = Stored(heap, view.ptr, set(Content(view.ptr), name, value))
    /\ last' = IF Panics(CString_new(name)) THEN Aborted("set", NULL, name)
               ELSE [Did("view_set", NULL) EXCEPT !.f = name, !.v = Into_Value(value)]
    /\ UNCHANGED <<handles, ext, it, hist, view>>

ViewRemoveField(field) ==
    /\ view.st = "live" /\ view.mutable
    /\ heap' = Stored(heap, view.ptr, remove_field(Content(view.ptr), field))
    /\ last' = IF Panics(CString_new(field)) THEN Aborted("remove_field", NULL, field)
               ELSE [Did("view_remove_field", NULL) EXCEPT !.f = field,
                                                           !.n = Len(heap[view.ptr].fields)]
    /\ UNCHANGED <<handles, ext, it, hist, view>>

ViewRemoveAllFields ==
    /\ view.st = "live" /\ view.mutable
    /\ heap' = Stored(heap, view.ptr, remove_all_fields(Content(view.ptr)))
    /\ last' = [Did("view_remove_all_fields", NULL) EXCEPT !.n = Len(heap[view.ptr].fields)]
    /\ UNCHANGED <<handles, ext, it, hist, view>>

ViewGetValue(name) ==
    /\ view.st = "live"
    /\ last' = IF get_value(Content(view.ptr), name) = Panicked
               THEN Aborted("get_value", NULL, name)
               ELSE [Did("view_get_value", NULL) EXCEPT !.f = name,
                                                        !.ret = get_value(Content(view.ptr), name)]
    /\ UNCHANGED <<heap, handles, ext, it, hist, view>>

ViewToString ==
    /\ view.st = "live"
    /\ last' = [Did("view_to_string", NULL) EXCEPT !.list = to_string(Content(view.ptr))]
    /\ UNCHANGED <<heap, handles, ext, it, hist, view>>

\* ToOwned for Structure, called on the view.
ViewToOwned ==
    /\ view.st = "live"
    /\ CanCreate
    /\ heap' = Allocated(heap, FreshAddr, gst_structure_copy(Content(view.ptr)))
    /\ handles' = Wrapped_in(handles, FreshHid, FreshAddr, NULL)
    /\ view' = [view EXCEPT !.made = @ \cup {FreshHid}]
    /\ last' = Did("view_to_owned", FreshHid)
    /\ UNCHANGED <<ext, it, hist>>

\* A view whose end releases the structure, as the end of a handle does.
ViewEnd_frees ==
    /\ view.st = "live"
    /\ heap' = gst_structure_free(heap, view.ptr, "core")
    /\ view' = [view EXCEPT !.st = "ended"]
    /\ last' = Did("view_end", NULL)
    /\ UNCHANGED <<handles, ext, it, hist>>

\* The reference's lifetime ends: Structure has no Drop, nothing runs.
ViewEnd ==
    /\ view.st = "live"
    /\ view' = [view EXCEPT !.st = "ended"]
    /\ last' = Did("view_end", NULL)
    /\ UNCHANGED <<heap, handles, ext, it, hist>>

\* ------------------------------------- Structure methods through a live handle
\* DerefMut, then Structure::set.
Set(h, name, value) ==
    /\ Live(h)
    /\ heap' = Stored(heap, handles[h].ptr, set(Content(handles[h].ptr), name, value))
    /\ last' = IF Panics(CString_new(name)) THEN Aborted("set", h, name)
               ELSE [Did("set", h) EXCEPT !.f = name, !.v = Into_Value(value)]
    /\ UNCHANGED <<view, handles, ext, it, hist>>

RemoveField(h, field) ==
    /\ Live(h)
    /\ heap' = Stored(heap, handles[h].ptr, remove_field(Content(handles[h].ptr), field))
    /\ last' = IF Panics(CString_new(field)) THEN Aborted("remove_field", h, field)
               ELSE [Did("remove_field", h) EXCEPT !.f = field,
                                                   !.n = Len(heap[handles[h].ptr].fields)]
    /\ UNCHANGED <<view, handles, ext, it, hist>>

RemoveAllFields(h) ==
    /\ Live(h)
    /\ heap' = Stored(heap, handles[h].ptr, remove_all_fields(Content(handles[h].ptr)))
    /\ last' = [Did("remove_all_fields", h) EXCEPT !.n = Len(heap[handles[h].ptr].fields)]
    /\ UNCHANGED <<view, handles, ext, it, hist>>

\* Deref, then the reading methods; the result is kept in last.
Get(h, name, T) ==
    /\ Live(h)
    /\ last' = IF get(Content(handles[h].ptr), name, T) = Panicked
               THEN Aborted("get", h, name)
               ELSE [Did("get", h) EXCEPT !.f = name, !.ty = T,
                                          !.ret = get(Content(handles[h].ptr), name, T)]
    /\ UNCHANGED <<view, heap, handles, ext, it, hist>>

GetValue(h, name) ==
    /\ Live(h)
    /\ last' = IF get_value(Content(handles[h].ptr), name) = Panicked
               THEN Aborted("get_value", h, name)
               ELSE [Did("get_value", h) EXCEPT !.f = name,
                                                !.ret = get_value(Content(handles[h].ptr), name)]
    /\ UNCHANGED <<view, heap, handles, ext, it, hist>>

HasField(h, field) ==
    /\ Live(h)
    /\ last' = IF Panics(CString_new(field)) THEN Aborted("has_field", h, field)
               ELSE [Did("has_field", h) EXCEPT !.f = field,
                                                !.b = has_field(Content(handles[h].ptr), field)]
    /\ UNCHANGED <<view, heap, handles, ext, it, hist>>

GetName(h) ==
    /\ Live(h)
    /\ last' = [Did("get_name", h) EXCEPT !.f = get_name(Content(handles[h].ptr))]
    /\ UNCHANGED <<view, heap, handles, ext, it, hist>>

\* Deref, then Structure::to_string; the text is kept in last.
StructureToString(h) ==
    /\ Live(h)
    /\ last' = [Did("to_string", h) EXCEPT !.list = to_string(Content(handles[h].ptr))]
    /\ UNCHANGED <<view, heap, handles, ext, it, hist>>

\* PartialEq for OwnedStructure: self.as_ref().eq(other), on the two structures.
Eq(h1, h2) ==
    /\ Live(h1) /\ Live(h2)
    /\ last' = [Did("eq", h1) EXCEPT !.h2 = h2,
                    !.b = OwnedStructure_eq(handles[h1].ptr, Content(handles[h1].ptr),
                                            handles[h2].ptr, Content(handles[h2].ptr))]
    /\ UNCHANGED <<view, heap, handles, ext, it, hist>>

\* ------------------------------------------------- iterators over a live handle
NoHist == [n0 |-> 0, fwd |-> <<>>, bwd |-> <<>>]

Yielded(h, side, name) ==
    IF name = NoName THEN h
    ELSE IF side = "fwd" THEN [h EXCEPT !.fwd = Append(@, name)]
    ELSE [h EXCEPT !.bwd = Append(@, name)]

\* s.fields() on the structure of h.
Fields(h) ==
    /\ Live(h)
    /\ it' = fields(handles[h].ptr, Content(handles[h].ptr))
    /\ hist' = [NoHist EXCEPT !.n0 = Len(heap[handles[h].ptr].fields)]
    /\ last' = Did("fields", h)
    /\ UNCHANGED <<view, heap, handles, ext>>

\* s.iter() on the structure of h.
IterOf(h) ==
    /\ Live(h)
    /\ it' = iter(handles[h].ptr, Content(handles[h].ptr))
    /\ hist' = [NoHist EXCEPT !.n0 = Len(heap[handles[h].ptr].fields)]
    /\ last' = Did("iter", h)
    /\ UNCHANGED <<view, heap, handles, ext>>

FieldNext ==
    /\ it.kind = "FieldIterator"
    /\ LET r == next(it, Content(it.structure))
       IN  /\ it' = r.it
           /\ hist' = Yielded(hist, "fwd", r.ret)
           /\ last' = [Did("next", NULL) EXCEPT !.f = r.ret]
    /\ UNCHANGED <<view, heap, handles, ext>>

FieldNextBack ==
    /\ it.kind = "FieldIterator"
    /\ LET r == next_back(it, Content(it.structure))
       IN  /\ it' = r.it
           /\ hist' = Yielded(hist, "bwd", r.ret)
           /\ last' = [Did("next_back", NULL) EXCEPT !.f = r.ret]
    /\ UNCHANGED <<view, heap, handles, ext>>

FieldSizeHint ==
    /\ it.kind = "FieldIterator"
    /\ last' = [Did("size_hint", NULL) EXCEPT !.list = size_hint(it)]
    /\ UNCHANGED <<view, heap, handles, ext, it, hist>>

IterNext ==
    /\ it.kind = "Iter"
    /\ LET r == Iter_next(it, Content(it.structure))
       IN  /\ it' = r.it
           /\ hist' = Yielded(hist, "fwd", r.ret)
           /\ last' = [Did(IF r.abort THEN "abort" ELSE "next", NULL)
                          EXCEPT !.f = r.ret, !.ret = r.v]
    /\ UNCHANGED <<view, heap, handles, ext>>

IterNextBack ==
    /\ it.kind = "Iter"
    /\ LET r == Iter_next_back(it, Content(it.structure))
       IN  /\ it' = r.it
           /\ hist' = Yielded(hist, "bwd", r.ret)
           /\ last' = [Did(IF r.abort THEN "abort" ELSE "next_back", NULL)
                          EXCEPT !.f = r.ret, !.ret = r.v]
    /\ UNCHANGED <<view, heap, handles, ext>>

IterSizeHint ==
    /\ it.kind = "Iter"
    /\ last' = [Did("size_hint", NULL) EXCEPT !.list = Iter_size_hint(it)]
    /\ UNCHANGED <<view, heap, handles, ext, it, hist>>

\* The iterator goes out of scope: its borrow of the structure ends.
IterEnd ==
    /\ it.kind # "none"
    /\ it' = NoIter
    /\ hist' = NoHist
    /\ last' = Did("iter_end", NULL)
    /\ UNCHANGED <<view, heap, handles, ext>>

\* ------------------------------------------------------------ specifications
Entries == {[f |-> f, v |-> v] : f \in FieldNames, v \in Values}

\* The structures a program can build: a name, and fields of distinct names.
StructsOver(fnames, values, n) ==
    {[name |-> nm, fields |-> fs] :
        nm \in StructNames,
        fs \in {l \in SeqsUpTo({[f |-> f, v |-> v] : f \in fnames, v \in values}, n) :
                    Distinct(FieldNamesOf(l))}}

\* A heap and handle table holding the structures ss[1], ss[2], ... and nothing else.
HeapOf(ss) ==
    [a \in Addrs |-> IF a <= Len(ss)
                     THEN [EmptyCell EXCEPT !.st = "live", !.name = ss[a].name, !.fields = ss[a].fields]
                     ELSE EmptyCell]

HandlesOf(ss) ==
    [h \in Hids |-> IF h <= Len(ss) THEN [st |-> "live", ptr |-> h, from |-> NULL]
                    ELSE NoHandle]

\* Handles from construction to drop or into_ptr, with the writing methods.
LifeFieldNames == {"f1"}
LifeNatives == {[k |-> "i32", p |-> 1], [k |-> "&str", p |-> 1]}
LifeEntries == {[f |-> f, v |-> Into_Value(n)] : f \in LifeFieldNames, n \in LifeNatives}
LifeTexts == {t \in Texts : \A i \in 1..Len(t) : t[i] \notin {"f2", "2"}}

Init ==
    /\ heap = [a \in Addrs |-> EmptyCell]
    /\ handles = [h \in Hids |-> NoHandle]
    /\ ext = {}
    /\ it = NoIter
    /\ hist = NoHist
    /\ last = L0
    /\ view = NoView

Next ==
    \/ \E name \in StructNames : new_empty(name)
    \/ \E name \in StructNames, values \in SeqsUpTo(LifeEntries, 1) : new(name, values)
    \/ \E text \in LifeTexts : from_string(text)
    \/ \E h \in Hids : into_ptr(h)
    \/ \E h \in Hids : clone(h)
    \/ \E h \in Hids : to_owned(h)
    \/ \E h \in Hids : drop(h)
    \/ \E a \in Addrs : ExternalFree(a)
    \/ \E h \in Hids, name \in LifeFieldNames, value \in LifeNatives : Set(h, name, value)
    \/ \E h \in Hids, field \in LifeFieldNames : RemoveField(h, field)
    \/ \E h \in Hids : RemoveAllFields(h)

Spec == Init /\ [][Next]_vars

\* OwnedStructure::new on every field list up to MaxListLen, one structure at a time.
NewFieldNames == {"f1", "f2", "f3"}
NewEntries == {[f |-> f, v |-> v] : f \in NewFieldNames, v \in Values}

NextNew ==
    \/ /\ \A h \in Hids : ~Live(h)
       /\ \E name \in StructNames, values \in SeqsUpTo(NewEntries, MaxListLen) : new(name, values)
    \/ \E h \in Hids : drop(h)

SpecNew == Init /\ [][NextNew]_vars

\* One structure made by new_empty, written and read through its handle.
OneFieldNames == {"f1", "f2", "f3"}

InitOne ==
    /\ \E n1 \in StructNames :
         /\ heap = HeapOf(<<gst_structure_new_empty(n1)>>)
         /\ handles = HandlesOf(<<gst_structure_new_empty(n1)>>)
    /\ ext = {}
    /\ it = NoIter
    /\ hist = NoHist
    /\ last = L0
    /\ view = NoView

NextOne ==
    \/ \E h \in Hids, name \in OneFieldNames, value \in Natives : Set(h, name, value)
    \/ \E h \in Hids, field \in OneFieldNames : RemoveField(h, field)
    \/ \E h \in Hids : RemoveAllFields(h)
    \/ \E h \in Hids, name \in OneFieldNames, T \in ValueTypes : Get(h, name, T)
    \/ \E h \in Hids, name \in OneFieldNames : GetValue(h, name)
    \/ \E h \in Hids, field \in OneFieldNames : HasField(h, field)
    \/ \E h \in Hids : GetName(h)

SpecOne == InitOne /\ [][NextOne]_vars

\* Two structures made by new_empty, written through their handles and compared.
InitEq ==
    /\ \E n1, n2 \in StructNames :
         /\ heap = HeapOf(<<gst_structure_new_empty(n1), gst_structure_new_empty(n2)>>)
         /\ handles = HandlesOf(<<gst_structure_new_empty(n1), gst_structure_new_empty(n2)>>)
    /\ ext = {}
    /\ it = NoIter
    /\ hist = NoHist
    /\ last = L0
    /\ view = NoView

NextEq ==
    \/ \E h \in Hids, name \in FieldNames, value \in Natives : Set(h, name, value)
    \/ \E h \in Hids, field \in FieldNames : RemoveField(h, field)
    \/ \E h \in Hids : RemoveAllFields(h)
    \/ \E h1, h2 \in Hids : Eq(h1, h2)

SpecEq == InitEq /\ [][NextEq]_vars

\* One structure made by new_empty, written, copied and dropped.
InitClone ==
    /\ \E n1 \in StructNames :
         /\ heap = HeapOf(<<gst_structure_new_empty(n1)>>)
         /\ handles = HandlesOf(<<gst_structure_new_empty(n1)>>)
    /\ ext = {}
    /\ it = NoIter
    /\ hist = NoHist
    /\ last = L0
    /\ view = NoView

NextClone ==
    \/ \E h \in Hids : clone(h)
    \/ \E h \in Hids : to_owned(h)
    \/ \E h \in Hids : drop(h)
    \/ \E h \in Hids, name \in FieldNames, value \in LifeNatives : Set(h, name, value)
    \/ \E h \in Hids, field \in FieldNames : RemoveField(h, field)
    \/ \E h \in Hids : RemoveAllFields(h)

SpecClone == InitClone /\ [][NextClone]_vars

\* One structure a program has built, and the iterators over it.
InitIter ==
    /\ \E s \in StructsOver(IterFieldNames, {IntVal(1), StrVal(1)}, MaxIterFields) :
         /\ heap = HeapOf(<<s>>)
         /\ handles = HandlesOf(<<s>>)
    /\ ext = {}
    /\ it = NoIter
    /\ hist = NoHist
    /\ last = L0
    /\ view = NoView

NextIter ==
    \/ \E h \in Hids : Fields(h)
    \/ \E h \in Hids : IterOf(h)
    \/ FieldNext
    \/ FieldNextBack
    \/ FieldSizeHint
    \/ IterNext
    \/ IterNextBack
    \/ IterSizeHint

SpecIter == InitIter /\ [][NextIter]_vars

\* One structure made by new_empty and written; its text, and other texts, parsed.
TextFieldNames == {"f1", "f2", "a b"}
TextNatives == {[k |-> "i32", p |-> 1], [k |-> "&str", p |-> 1]}

LiveHandles == {h \in Hids : Live(h)}

\* The texts to_string gives for the live structures.
LiveTexts == {to_string(Content(handles[h].ptr)) : h \in LiveHandles}

NextText ==
    \/ /\ Cardinality(LiveHandles) = 1
       /\ \/ \E h \in Hids, name \in TextFieldNames, value \in TextNatives : Set(h, name, value)
          \/ \E h \in Hids, field \in TextFieldNames : RemoveField(h, field)
          \/ \E h \in Hids : RemoveAllFields(h)
    \/ \E h \in Hids : StructureToString(h)
    \/ \E text \in LiveTexts : from_string(text)
    \/ \E h \in Hids : drop(h)

SpecText == InitOne /\ [][NextText]_vars

\* One structure at a time, made by new_empty or new, then written, read,
\* turned into text and iterated; it is written only while no iterator borrows it.
NextName ==
    \/ /\ LiveHandles = {}
       /\ \/ \E name \in StructNames : new_empty(name)
          \/ \E name \in StructNames, values \in SeqsUpTo(LifeEntries, 1) : new(name, values)
    \/ /\ it.kind = "none"
       /\ \/ \E h \in Hids, name \in FieldNames, value \in LifeNatives : Set(h, name, value)
          \/ \E h \in Hids, field \in FieldNames : RemoveField(h, field)
          \/ \E h \in Hids : RemoveAllFields(h)
          \/ \E h \in Hids : drop(h)
    \/ \E h \in Hids : GetName(h)
    \/ \E h \in Hids : StructureToString(h)
    \/ \E h \in Hids : Fields(h)
    \/ \E h \in Hids : IterOf(h)
    \/ FieldNext
    \/ FieldNextBack
    \/ IterNext
    \/ IterNextBack
    \/ IterEnd

SpecName == Init /\ [][NextName]_vars

\* Handles made, given away or dropped; then one view made from a raw pointer
\* or from a handle, used, and ended.
ViewFieldNames == {"f2"}
ViewNatives == {[k |-> "i32", p |-> 1], [k |-> "&str", p |-> 1]}

NextView ==
    \/ /\ view.st = "none"
       /\ \/ \E name \in StructNames, values \in SeqsUpTo(LifeEntries, 1) : new(name, values)
          \/ \E h \in Hids : into_ptr(h)
          \/ \E h \in Hids : drop(h)
          \/ \E a \in Addrs : ExternalFree(a)
          \/ \E ptr \in ext \cup {NULL} : from_borrowed_ptr(ptr)
          \/ \E ptr \in ext \cup {NULL} : from_borrowed_mut_ptr(ptr)
          \/ \E h \in Hids : deref(h)
          \/ \E h \in Hids : deref_mut(h)
    \/ \E name \in ViewFieldNames, value \in ViewNatives : ViewSet(name, value)
    \/ \E field \in FieldNames : ViewRemoveField(field)
    \/ ViewRemoveAllFields
    \/ \E name \in FieldNames : ViewGetValue(name)
    \/ ViewToString
    \/ ViewToOwned
    \/ ViewEnd

SpecView == Init /\ [][NextView]_vars

\* One structure a program has built, a FieldIterator over it, and a raw
\* pointer to the same allocation through which fields are removed meanwhile.
AliasValues == {IntVal(1)}

InitAlias ==
    /\ \E s \in StructsOver(IterFieldNames, AliasValues, MaxIterFields) :
         /\ heap = HeapOf(<<s>>)
         /\ handles = HandlesOf(<<s>>)
    /\ ext = {}
    /\ it = NoIter
    /\ hist = NoHist
    /\ last = L0
    /\ view = NoView

NextAlias ==
    \/ \E h \in Hids : Fields(h)
    \/ FieldNext
    \/ FieldNextBack
    \/ FieldSizeHint
    \/ \E ptr \in {handles[h].ptr : h \in LiveHandles} : from_borrowed_mut_ptr(ptr)
    \/ \E field \in IterFieldNames : ViewRemoveField(field)
    \/ ViewRemoveAllFields

SpecAlias == InitAlias /\ [][NextAlias]_vars

\* One structure at a time, made by new_empty or from_string and then read and
\* written, with names and texts that may hold a NUL byte.
NulStructNames == {"test", "te<NUL>st"}
NulFieldNames == {"f1", "f2", "f1<NUL>x"}
NulNatives == {[k |-> "i32", p |-> 1], [k |-> "&str", p |-> 1]}
NulTexts ==
    { <<"test", ";">>,
      <<"test", ",", "f1", "=", "(int)", "1", ";">>,
      <<"test", ",", "f1<NUL>x", "=", "(int)", "1", ";">>,
      <<"te<NUL>st", ";">>,
      <<"test", ",", "f1">> }

NextNul ==
    \/ /\ LiveHandles = {}
       /\ \/ \E name \in NulStructNames : new_empty(name)
          \/ \E text \in NulTexts : from_string(text)
    \/ \E h \in Hids, name \in NulFieldNames, value \in NulNatives : Set(h, name, value)
    \/ \E h \in Hids, field \in NulFieldNames : RemoveField(h, field)
    \/ \E h \in Hids, name \in NulFieldNames, T \in ValueTypes : Get(h, name, T)
    \/ \E h \in Hids, name \in NulFieldNames : GetValue(h, name)
    \/ \E h \in Hids, field \in NulFieldNames : HasField(h, field)
    \/ \E h \in Hids : drop(h)

SpecNul == Init /\ [][NextNul]_vars

\* ====================================================================== claims

\* ------------------------------------------------------------------------ C1
\* C1: an allocation made by new_empty, new, from_string, clone or to_owned and
\* never passed to into_ptr is freed exactly once, when its handle is dropped:
\* while the handle is live the cell is live and was never freed, no two live
\* or dropped handles share a cell, a dropped handle's cell has been freed
\* exactly once by Drop, and Drop has freed no cell without a dropped handle.
C1_FreedExactlyOnceAtDrop ==
    /\ \A h \in Hids :
         /\ handles[h].st = "live" =>
              /\ heap[handles[h].ptr].st = "live"
              /\ heap[handles[h].ptr].coreFrees = 0
              /\ heap[handles[h].ptr].extFrees = 0
         /\ handles[h].st = "dropped" =>
              /\ heap[handles[h].ptr].st = "freed"
              /\ heap[handles[h].ptr].coreFrees = 1
              /\ heap[handles[h].ptr].extFrees = 0
    /\ \A g, h \in Hids :
         g # h /\ handles[g].st # "unused" /\ handles[h].st # "unused"
            => handles[g].ptr # handles[h].ptr
    /\ \A a \in Addrs :
         /\ heap[a].coreFrees <= 1
         /\ heap[a].coreFrees = 1 => \E h \in Hids : handles[h].st = "dropped" /\ handles[h].ptr = a
         /\ heap[a].st # "unalloc" => \E h \in Hids : handles[h].st # "unused" /\ handles[h].ptr = a

\* A handle was just dropped after its structure was written, and another
\* handle, a copy, is still live on its own cell.
C1_Witness ==
    /\ last.op = "drop"
    /\ handles[last.h].st = "dropped"
    /\ heap[handles[last.h].ptr].coreFrees = 1
    /\ \E g \in Hids : /\ handles[g].st = "live"
                       /\ handles[g].from = last.h
                       /\ heap[handles[g].ptr].fields # <<>>

\* ------------------------------------------------------------------------ C2
\* C2: once into_ptr has consumed a handle, Drop never runs for its cell: the
\* cell stays live and unfreed while the external owner holds the pointer, the
\* core has freed it zero times, and the frees of any one cell, by the core and
\* by the external owner together, are never more than one.
C2_NoReleaseAfterIntoPtr ==
    /\ \A h \in Hids :
         handles[h].st = "forgotten" =>
            /\ heap[handles[h].ptr].coreFrees = 0
            /\ heap[handles[h].ptr].extFrees <= 1
            /\ handles[h].ptr \in ext <=> heap[handles[h].ptr].st = "live"
            /\ handles[h].ptr \notin ext <=> heap[handles[h].ptr].extFrees = 1
    /\ \A a \in ext : heap[a].st = "live" /\ heap[a].coreFrees = 0 /\ heap[a].extFrees = 0
    /\ \A a \in Addrs : heap[a].coreFrees + heap[a].extFrees <= 1

\* The external owner has just freed a pointer it got from into_ptr, while
\* another pointer handed out by into_ptr is still live.
C2_Witness ==
    /\ last.op = "external_free"
    /\ \E h \in Hids : /\ handles[h].st = "forgotten"
                       /\ handles[h].ptr = last.n
                       /\ heap[last.n].extFrees = 1
                       /\ heap[last.n].coreFrees = 0
    /\ \E h \in Hids : handles[h].st = "forgotten" /\ handles[h].ptr \in ext

\* ------------------------------------------------------------------------ C3
\* C3: clone and to_owned return a live handle on a new cell, distinct from the
\* original's, whose structure is equal to the original (same name, same fields,
\* values and order) and leave the original as it was; and a set, remove_field,
\* remove_all_fields or drop through one handle leaves the cell of every other
\* live handle, the copy's or the original's, unchanged.
C3_Step ==
    /\ last'.op \in {"clone", "to_owned"} =>
         LET n == handles'[last'.h].ptr
             o == handles'[last'.h2].ptr
         IN  /\ handles'[last'.h].st = "live"
             /\ handles[last'.h].st = "unused"
             /\ n # o
             /\ heap[n].st = "unalloc" /\ heap'[n].st = "live"
             /\ eq(n, [name |-> heap'[n].name, fields |-> heap'[n].fields], o, Content(o))
             /\ heap'[n].name = heap[o].name
             /\ heap'[n].fields = heap[o].fields
             /\ heap'[o] = heap[o]
    /\ last'.op \in {"set", "remove_field", "remove_all_fields", "drop"} =>
         \A y \in Hids :
            y # last'.h /\ handles[y].st = "live"
               => /\ handles'[y] = handles[y]
                  /\ heap'[handles[y].ptr] = heap[handles[y].ptr]

C3_DuplicateIsIndependent == [][C3_Step]_vars

\* A copy and its original are both live with two fields each, in different
\* orders and with different values: each was written after the copy was made.
C3_Witness ==
    \E c, o \in Hids :
        /\ handles[c].st = "live" /\ handles[o].st = "live"
        /\ handles[c].from = o
        /\ Len(heap[handles[c].ptr].fields) = 2
        /\ Len(heap[handles[o].ptr].fields) = 2
        /\ heap[handles[c].ptr].fields[1].f # heap[handles[o].ptr].fields[1].f
        /\ heap[handles[c].ptr].fields[1].v # heap[handles[o].ptr].fields[2].v

\* ------------------------------------------------------------------------ C4
StoredAt(s, f) == s.fields[CHOOSE i \in 1..Len(s.fields) : s.fields[i].f = f].v

Present(s, f) == \E i \in 1..Len(s.fields) : s.fields[i].f = f

\* C4: get::<T>(f) returns a value exactly when f is present and its stored
\* value has type tag T, and then returns the stored value; otherwise None, for
\* either cause, and the structure is not changed.  The stored value is the one
\* most recently set: right after set(f, v), get::<T>(f) is v for v's type and
\* None for any other, and only a set, remove_field or remove_all_fields on the
\* same structure changes what get returns.
C4_Step ==
    /\ last'.op = "get" =>
         LET s == Content(handles[last'.h].ptr)
         IN  /\ heap' = heap /\ handles' = handles
             /\ last'.ret # NoValue <=> (Present(s, last'.f) /\ StoredAt(s, last'.f).ty = last'.ty)
             /\ last'.ret # NoValue => last'.ret = StoredAt(s, last'.f)
    /\ last'.op = "set" =>
         \A T \in ValueTypes :
            get([name |-> heap'[handles[last'.h].ptr].name,
                 fields |-> heap'[handles[last'.h].ptr].fields], last'.f, T)
              = IF T = last'.v.ty THEN last'.v ELSE NoValue
    /\ \A h \in Hids, f \in OneFieldNames, T \in ValueTypes :
         (/\ handles[h].st = "live"
          /\ ~(last'.h = h /\ last'.op \in {"set", "remove_field"} /\ last'.f = f)
          /\ ~(last'.h = h /\ last'.op = "remove_all_fields"))
            => get([name |-> heap'[handles[h].ptr].name,
                    fields |-> heap'[handles[h].ptr].fields], f, T)
                 = get(Content(handles[h].ptr), f, T)

C4_TypedGet == [][C4_Step]_vars

\* get::<i32> has just returned None for a field that holds a string, which
\* get::<&str> returns.
C4_Witness ==
    /\ last.op = "get"
    /\ last.ty = "i32"
    /\ last.ret = NoValue
    /\ Present(Content(handles[last.h].ptr), last.f)
    /\ get(Content(handles[last.h].ptr), last.f, "str") = StrVal(1)

\* ------------------------------------------------------------------------ C5
\* C5: field names are pairwise distinct in every structure reached by set,
\* remove_field and remove_all_fields; set(f, v) on a structure that has f
\* replaces f's value and keeps the count, every position and every other
\* value; on a structure without f it appends f as the last field.
C5_Step ==
    /\ \A h \in Hids : handles'[h].st = "live" =>
          Distinct(FieldNamesOf(heap'[handles'[h].ptr].fields))
    /\ last'.op = "set" =>
         LET old == heap[handles[last'.h].ptr].fields
             new_ == heap'[handles[last'.h].ptr].fields
         IN  /\ heap'[handles[last'.h].ptr].name = heap[handles[last'.h].ptr].name
             /\ IF \E i \in 1..Len(old) : old[i].f = last'.f
                THEN /\ Len(new_) = Len(old)
                     /\ \A i \in 1..Len(old) :
                          /\ new_[i].f = old[i].f
                          /\ new_[i].v = IF old[i].f = last'.f THEN last'.v ELSE old[i].v
                ELSE /\ Len(new_) = Len(old) + 1
                     /\ \A i \in 1..Len(old) : new_[i] = old[i]
                     /\ new_[Len(new_)] = [f |-> last'.f, v |-> last'.v]

C5_SetOverwritesInPlace == [][C5_Step]_vars

\* set has just overwritten the second of three fields: it is still second and
\* holds the new value.
C5_Witness ==
    /\ last.op = "set"
    /\ Len(heap[handles[last.h].ptr].fields) = 3
    /\ heap[handles[last.h].ptr].fields[2] = [f |-> last.f, v |-> last.v]

\* ------------------------------------------------------------------------ C6
\* C6: for a field list of pairwise distinct names, new(name, fields) gives a
\* structure of that name whose field count is the length of the list, whose
\* fields() collects the listed names in the listed order, which holds each
\* listed value under its name, and which is equal to the structure that
\* new_empty(name) and one set per entry build: the listed fields in order.
C6_NewBuildsListedFields ==
    (last.op = "new" /\ Distinct(FieldNamesOf(last.list))) =>
        LET p == handles[last.h].ptr
            s == Content(p)
        IN  /\ handles[last.h].st = "live"
            /\ get_name(s) = last.f
            /\ n_fields(s) = Len(last.list)
            /\ CollectFrom(fields(p, s), s) = FieldNamesOf(last.list)
            /\ \A i \in 1..Len(last.list) : get_value(s, last.list[i].f) = last.list[i].v
            /\ eq(p, s, NULL, [name |-> last.f, fields |-> last.list])

\* new was just given three entries of distinct names, as in tests::new_set_get.
C6_Witness ==
    /\ last.op = "new"
    /\ FieldNamesOf(last.list) = <<"f1", "f2", "f3">>
    /\ last.list[1].v = StrVal(1) /\ last.list[3].v = IntVal(2)
    /\ n_fields(Content(handles[last.h].ptr)) = 3

\* ------------------------------------------------------------------------ C7
LastValueFor(list, f) ==
    list[CHOOSE i \in 1..Len(list) :
            list[i].f = f /\ \A j \in 1..Len(list) : list[j].f = f => j <= i].v

RECURSIVE FirstOccurrences(_)
FirstOccurrences(names) ==
    IF names = <<>> THEN <<>>
    ELSE LET rest == FirstOccurrences(SubSeq(names, 1, Len(names) - 1))
             x == names[Len(names)]
         IN  IF x \in Range(rest) THEN rest ELSE Append(rest, x)

LastWriteWins ==
    \A i \in 1..Len(last.list) :
        get_value(Content(handles[last.h].ptr), last.list[i].f)
            = LastValueFor(last.list, last.list[i].f)

\* C7 as stated: for a list that repeats a name, the value under each name is
\* that of its last entry, and iterating the fields yields the listed names as
\* given.
C7_ListedOrderAsGiven ==
    (last.op = "new" /\ ~Distinct(FieldNamesOf(last.list))) =>
        LET p == handles[last.h].ptr
        IN  /\ LastWriteWins
            /\ CollectFrom(fields(p, Content(p)), Content(p)) = FieldNamesOf(last.list)

\* C7 amended: for a list that repeats a name, the value under each name is
\* that of its last entry, and iterating the fields yields each listed name
\* once, in the order of the names' first entries in the list.
C7_LastWriteWinsFirstPosition ==
    (last.op = "new" /\ ~Distinct(FieldNamesOf(last.list))) =>
        LET p == handles[last.h].ptr
        IN  /\ LastWriteWins
            /\ CollectFrom(fields(p, Content(p)), Content(p))
                 = FirstOccurrences(FieldNamesOf(last.list))

\* new was just given f1, f2 and f1 again with another value: f1 is still the
\* first field and holds the later value.
C7_Witness ==
    /\ last.op = "new"
    /\ FieldNamesOf(last.list) = <<"f1", "f2", "f1">>
    /\ last.list[1].v # last.list[3].v
    /\ heap[handles[last.h].ptr].fields
         = <<[f |-> "f1", v |-> last.list[3].v], [f |-> "f2", v |-> last.list[2].v]>>

\* ------------------------------------------------------------------------ C8
StorageNames == FieldNamesOf(heap[it.structure].fields)

\* C8: on a FieldIterator over an unmutated structure of n fields, after any
\* interleaving of next and next_back: the k-th name next yielded is the field
\* at index k-1 and the k-th name next_back yielded is the field at index n-k;
\* the two ends never meet a field twice and at exhaustion every field has been
\* yielded exactly once; a call returns None exactly when idx = n_fields; and
\* next alone collects the storage order, next_back alone its reverse.
C8_BothEndsInOrder ==
    it.kind = "FieldIterator" =>
        LET s == Content(it.structure)
            n == hist.n0
        IN  /\ n = Len(StorageNames)
            /\ it.idx = Len(hist.fwd)
            /\ it.n_fields = n - Len(hist.bwd)
            /\ Len(hist.fwd) + Len(hist.bwd) <= n
            /\ \A k \in 1..Len(hist.fwd) : hist.fwd[k] = StorageNames[(k - 1) + 1]
            /\ \A k \in 1..Len(hist.bwd) : hist.bwd[k] = StorageNames[(n - k) + 1]
            /\ Distinct(hist.fwd \o hist.bwd)
            /\ it.idx = it.n_fields => Range(hist.fwd \o hist.bwd) = Range(StorageNames)
            /\ next(it, s).ret = NoName <=> it.idx = it.n_fields
            /\ next_back(it, s).ret = NoName <=> it.idx = it.n_fields
            /\ last.op \in {"next", "next_back"} /\ last.f = NoName => it.idx = it.n_fields
            /\ CollectFrom(fields(it.structure, s), s) = StorageNames
            /\ CollectBackFrom(fields(it.structure, s), s) = Reverse(StorageNames)

\* Over three fields, next yielded one name and next_back two, and the call
\* after that returned None.
C8_Witness ==
    /\ it.kind = "FieldIterator"
    /\ hist.n0 = 3
    /\ Len(hist.fwd) = 1 /\ Len(hist.bwd) = 2
    /\ last.op = "next" /\ last.f = NoName

\* ------------------------------------------------------------------------ C9
\* C9: at every point of a sequence of next and next_back calls, size_hint of a
\* FieldIterator, and of an Iter, is (r, Some(r)) with r = n_fields - idx, and r
\* is the number of names not yet yielded: what next alone, or next_back alone,
\* still yields before None, r of the n fields being left after the yields so far.
C9_SizeHintExact ==
    it.kind \in {"FieldIterator", "Iter"} =>
        LET s == Content(it.structure)
            r == it.n_fields - it.idx
            hint == IF it.kind = "Iter" THEN Iter_size_hint(it) ELSE size_hint(it)
        IN  /\ hint = <<r, r>>
            /\ r >= 0
            /\ r = Len(CollectFrom(it, s))
            /\ r = Len(CollectBackFrom(it, s))
            /\ r = hist.n0 - (Len(hist.fwd) + Len(hist.bwd))
            /\ last.op = "size_hint" => last.list = <<r, r>>

\* size_hint was just called with one of three names left, after a yield from
\* each end.
C9_Witness ==
    /\ last.op = "size_hint"
    /\ last.list = <<1, 1>>
    /\ hist.n0 = 3
    /\ Len(hist.fwd) = 1 /\ Len(hist.bwd) = 1

\* ----------------------------------------------------------------------- C10
FieldSet(s) == {<<s.fields[i].f, s.fields[i].v.ty, s.fields[i].v.val>> : i \in 1..Len(s.fields)}

\* C10: two structures compare equal exactly when their names are equal and
\* they have the same field names with equal values, in whatever order the
\* fields were set; eq is reflexive and symmetric.
C10_EqualityIsOrderFree ==
    /\ \A h1, h2 \in Hids :
         (handles[h1].st = "live" /\ handles[h2].st = "live") =>
            LET p1 == handles[h1].ptr
                p2 == handles[h2].ptr
            IN  /\ OwnedStructure_eq(p1, Content(p1), p2, Content(p2))
                      <=> (Content(p1).name = Content(p2).name
                           /\ FieldSet(Content(p1)) = FieldSet(Content(p2)))
                /\ eq(p1, Content(p1), p2, Content(p2)) <=> eq(p2, Content(p2), p1, Content(p1))
                /\ eq(p1, Content(p1), p1, Content(p1))
                /\ eq(p1, Content(p1), NULL, Content(p1))
    /\ last.op = "eq" =>
         last.b = (/\ Content(handles[last.h].ptr).name = Content(handles[last.h2].ptr).name
                   /\ FieldSet(Content(handles[last.h].ptr)) = FieldSet(Content(handles[last.h2].ptr)))

\* Two structures of one name, whose two fields were set in opposite orders,
\* have just compared equal.
C10_Witness ==
    /\ last.op = "eq"
    /\ last.b
    /\ last.h # last.h2
    /\ FieldNamesOf(heap[handles[last.h].ptr].fields) = <<"f1", "f2">>
    /\ FieldNamesOf(heap[handles[last.h2].ptr].fields) = <<"f2", "f1">>

\* ----------------------------------------------------------------------- C11
After(a) == [name |-> heap'[a].name, fields |-> heap'[a].fields]

\* The field names the text form writes as one word.
SimpleFieldNames == {f \in TextFieldNames : Words(f) = <<f>>}

\* to_string leaves every structure as it was, and from_string of the text of
\* the live structure s (when its field names are among names) returns a handle on a new
\* cell whose structure is equal to s, field for field in the same order,
\* leaving s as it was.
RoundTripStep(names) ==
    /\ last'.op = "to_string" => heap' = heap /\ handles' = handles
    /\ last'.op = "from_string" =>
         \A h \in Hids :
            (/\ handles[h].st = "live"
             /\ Range(FieldNamesOf(heap[handles[h].ptr].fields)) \subseteq names
             /\ last'.list = to_string(Content(handles[h].ptr)))
               => /\ last'.b
                  /\ last'.h # NULL /\ last'.h # h
                  /\ handles'[last'.h].st = "live"
                  /\ handles'[last'.h].ptr # handles[h].ptr
                  /\ eq(handles'[last'.h].ptr, After(handles'[last'.h].ptr),
                        handles[h].ptr, Content(handles[h].ptr))
                  /\ After(handles'[last'.h].ptr) = Content(handles[h].ptr)
                  /\ heap'[handles[h].ptr] = heap[handles[h].ptr]

PositionOf(s, f) ==
    IF Present(s, f) THEN CHOOSE i \in 1..Len(s.fields) : s.fields[i].f = f ELSE 0

\* C12: remove_field(f) on a structure that has f removes exactly that field:
\* the name stays, the count drops by one, f is gone, every other field keeps
\* its value and the other fields keep their relative order; on a structure
\* without f it changes nothing; and a second remove_field(f) right after the
\* first changes nothing.
C12_Step ==
    /\ last'.op = "remove_field" =>
         LET p == handles[last'.h].ptr
             old == Content(p)
             new_ == After(p)
             f == last'.f
         IN  /\ new_.name = old.name
             /\ \A a \in Addrs : a # p => heap'[a] = heap[a]
             /\ ~Present(old, f) => heap' = heap
             /\ Present(old, f) =>
                  /\ Len(new_.fields) = Len(old.fields) - 1
                  /\ ~Present(new_, f)
                  /\ \A g \in OneFieldNames \ {f} :
                       /\ Present(new_, g) <=> Present(old, g)
                       /\ Present(old, g) => StoredAt(new_, g) = StoredAt(old, g)
                  /\ \A g1, g2 \in OneFieldNames \ {f} :
                       (Present(old, g1) /\ Present(old, g2)) =>
                          (PositionOf(new_, g1) < PositionOf(new_, g2)
                             <=> PositionOf(old, g1) < PositionOf(old, g2))
    /\ (last.op = "remove_field" /\ last'.op = "remove_field"
          /\ last'.h = last.h /\ last'.f = last.f) => heap' = heap

C12_RemoveFieldExactAndIdempotent == [][C12_Step]_vars

\* remove_field has just removed f2, one of three fields: the other two are
\* left, in their order, the second of them a string.
C12_Witness ==
    /\ last.op = "remove_field"
    /\ last.n = 3
    /\ last.f = "f2"
    /\ FieldNamesOf(heap[handles[last.h].ptr].fields) = <<"f3", "f1">>
    /\ heap[handles[last.h].ptr].fields[2].v = StrVal(1)

\* ----------------------------------------------------------------------- C13
\* C13: new_empty(name) and new(name, ..) give a structure whose get_name is
\* name; no set, remove_field, remove_all_fields, to_string or iterator call
\* changes what get_name returns for a structure in scope; get_name returns the
\* stored name and changes nothing; and remove_all_fields leaves zero fields
\* and the name it found.
C13_Step ==
    /\ last'.op \in {"new_empty", "new"} =>
         get_name(After(handles'[last'.h].ptr)) = last'.f
    /\ \A h \in Hids :
         (handles[h].st = "live" /\ handles'[h].st = "live") =>
            /\ handles'[h].ptr = handles[h].ptr
            /\ get_name(After(handles[h].ptr)) = get_name(Content(handles[h].ptr))
    /\ last'.op = "get_name" =>
         /\ last'.f = heap[handles[last'.h].ptr].name
         /\ heap' = heap
    /\ last'.op = "remove_all_fields" =>
         /\ n_fields(After(handles[last'.h].ptr)) = 0
         /\ get_name(After(handles[last'.h].ptr)) = get_name(Content(handles[last'.h].ptr))
         /\ get_name(After(handles[last'.h].ptr)) \in StructNames

C13_NameFixedAtCreation == [][C13_Step]_vars

\* remove_all_fields has just cleared a structure named "caps" that had two
\* fields: it has none now and get_name still returns "caps".
C13_Witness ==
    /\ last.op = "remove_all_fields"
    /\ last.n = 2
    /\ handles[last.h].st = "live"
    /\ heap[handles[last.h].ptr].fields = <<>>
    /\ get_name(Content(handles[last.h].ptr)) = "caps"

\* ----------------------------------------------------------------------- C14
\* The well-formed texts among Texts: a name, then ", field=(type)value" zero
\* or more times with a value the type reads, then ";" or the end of the text.
WellFormedTexts ==
    { <<"test">>,
      <<"test", ";">>,
      <<"test", ",", "f1", "=", "(int)", "1", ";">>,
      <<"caps", ",", "f1", "=", "(string)", "abc", ",", "f2", "=", "(int)", "2", ";">>,
      <<"caps", ",", "f2", "=", "1">>,
      <<"test", ",", "f1", "=", "(int)", "1", ",", "f1", "=", "(string)", "abc", ";">> }

\* C14: from_string on a text that is not well-formed returns None and leaves
\* the handles, the allocations and their free counts as they were; on a
\* well-formed text it returns one new live handle, on one new allocation that
\* no other handle points to, and changes no other handle or allocation.
C14_Step ==
    last'.op = "from_string" =>
        IF last'.list \in WellFormedTexts
        THEN /\ last'.b
             /\ last'.h \in Hids
             /\ handles[last'.h].st = "unused"
             /\ handles'[last'.h].st = "live"
             /\ handles'[last'.h].ptr \in Addrs
             /\ heap[handles'[last'.h].ptr].st = "unalloc"
             /\ heap'[handles'[last'.h].ptr].st = "live"
             /\ heap'[handles'[last'.h].ptr].coreFrees = 0
             /\ {g \in Hids : handles'[g] # handles[g]} = {last'.h}
             /\ {a \in Addrs : heap'[a] # heap[a]} = {handles'[last'.h].ptr}
             /\ \A g \in Hids \ {last'.h} : handles'[g].ptr # handles'[last'.h].ptr
             /\ ext' = ext
        ELSE /\ ~last'.b
             /\ last'.h = NULL
             /\ handles' = handles
             /\ heap' = heap
             /\ ext' = ext

C14_FromStringNoneOrOneHandle == [][C14_Step]_vars

\* from_string has just returned None for a text whose value does not read as
\* its type, while a handle from an earlier, well-formed text is live.
C14_Witness ==
    /\ last.op = "from_string"
    /\ ~last.b
    /\ last.list = <<"test", ",", "f1", "=", "(int)", "abc", ";">>
    /\ \E h \in Hids : handles[h].st = "live" /\ heap[handles[h].ptr].fields # <<>>
    /\ \E h \in Hids : handles[h].st = "unused"

\* ----------------------------------------------------------------------- C15
\* C15 as stated: while a view is in use, whatever was called on it, and when
\* its lifetime has just ended, the live allocations and the owner of each are
\* those of the moment the view was made.
C15_ViewNeverAllocatesOrFrees ==
    (view.st = "live" \/ last.op = "view_end") =>
        /\ LiveAllocs = view.live0
        /\ Owners = view.owner0

\* C15 amended: while a view is in use and when its lifetime has just ended,
\* every allocation that was live when the view was made is still live and has
\* the owner it had; the only new allocations are those to_owned has returned
\* on the view, one per call, each owned by the handle to_owned returned; so a
\* view on which to_owned was not called leaves the live allocations and their
\* owners as they were.
C15_ViewOnlyToOwnedAllocates ==
    (view.st = "live" \/ last.op = "view_end") =>
        /\ \A a \in view.live0 : heap[a].st = "live" /\ OwnerOf(a) = view.owner0[a]
        /\ \A a \in Addrs : heap[a].coreFrees + heap[a].extFrees > 0 => a \notin view.live0
        /\ LiveAllocs \ view.live0 = {handles[h].ptr : h \in view.made}
        /\ Cardinality(LiveAllocs \ view.live0) = Cardinality(view.made)
        /\ \A h \in view.made : handles[h].st = "live" /\ OwnerOf(handles[h].ptr) = "handle"
        /\ view.made = {} => (LiveAllocs = view.live0 /\ Owners = view.owner0)

\* A mutable view on a raw pointer held outside has just ended, after a set
\* and a to_owned on it: the allocation has two fields and is still owned
\* outside, and the copy is owned by its handle.
C15_Witness ==
    /\ last.op = "view_end"
    /\ view.mutable
    /\ view.ptr \in ext
    /\ Cardinality(view.made) = 1
    /\ Len(heap[view.ptr].fields) = 2
    /\ \E h \in view.made : Len(heap[handles[h].ptr].fields) = 1

\* ----------------------------------------------------------------------- C16
\* A FieldIterator after n calls of next, and after n calls of next_back.
RECURSIVE AfterNexts(_, _, _)
AfterNexts(itr, s, n) == IF n = 0 THEN itr ELSE AfterNexts(next(itr, s).it, s, n - 1)

RECURSIVE AfterNextBacks(_, _, _)
AfterNextBacks(itr, s, n) == IF n = 0 THEN itr ELSE AfterNextBacks(next_back(itr, s).it, s, n - 1)

\* The names the first n calls of next, and of next_back, return.
RECURSIVE NamesOfNexts(_, _, _)
NamesOfNexts(itr, s, n) ==
    IF n = 0 THEN <<>> ELSE <<next(itr, s).ret>> \o NamesOfNexts(next(itr, s).it, s, n - 1)

RECURSIVE NamesOfNextBacks(_, _, _)
NamesOfNextBacks(itr, s, n) ==
    IF n = 0 THEN <<>>
    ELSE <<next_back(itr, s).ret>> \o NamesOfNextBacks(next_back(itr, s).it, s, n - 1)

\* C16: on an unmutated structure, after any interleaving of next and
\* next_back on an Iter, the names next has yielded and the names next_back has
\* yielded are those a FieldIterator yields for the same numbers of calls, and
\* the cursors are that FieldIterator's; each name came with the value
\* get_value returns for it, which is the stored one and never absent, so
\* neither call aborts on unwrap, now or at the next call.
C16_IterPairsFieldIteratorNames ==
    it.kind = "Iter" =>
        LET p == it.structure
            s == Content(p)
            f0 == fields(p, s)
            f1 == AfterNextBacks(AfterNexts(f0, s, Len(hist.fwd)), s, Len(hist.bwd))
        IN  /\ hist.fwd = NamesOfNexts(f0, s, Len(hist.fwd))
            /\ hist.bwd = NamesOfNextBacks(AfterNexts(f0, s, Len(hist.fwd)), s, Len(hist.bwd))
            /\ it.idx = f1.idx /\ it.n_fields = f1.n_fields
            /\ last.op # "abort"
            /\ (last.op \in {"next", "next_back"} /\ last.f # NoName) =>
                 /\ last.ret # NoValue
                 /\ last.ret = get_value(s, last.f)
                 /\ last.ret = StoredAt(s, last.f)
                 /\ last.f = (IF last.op = "next" THEN hist.fwd[Len(hist.fwd)]
                              ELSE hist.bwd[Len(hist.bwd)])
            /\ (last.op \in {"next", "next_back"} /\ last.f = NoName) => last.ret = NoValue
            /\ ~Iter_next(it, s).abort
            /\ ~Iter_next_back(it, s).abort
            /\ Iter_next(it, s).ret = next(f1, s).ret
            /\ Iter_next_back(it, s).ret = next_back(f1, s).ret

\* An Iter over three fields of two types has yielded one entry from the front
\* and then one from the back, the last a string under the third name.
C16_Witness ==
    /\ it.kind = "Iter"
    /\ hist.n0 = 3
    /\ Len(hist.fwd) = 1 /\ Len(hist.bwd) = 1
    /\ last.op = "next_back"
    /\ last.f = heap[it.structure].fields[3].f
    /\ last.ret = StrVal(1)
    /\ heap[it.structure].fields[1].v = IntVal(1)

\* ----------------------------------------------------------------------- C17
\* C17: with fields removed through an alias while a FieldIterator is in use,
\* get_nth_field_name(i) is a name exactly when i is below the structure's
\* field count of the moment, and then the name of a field of the structure;
\* a name next or next_back has just returned is a field of the structure, at
\* the position the cursor pointed to; and a call whose cursor points at or
\* past the field count returns None and, for next, leaves the cursors alone.
C17_Step ==
    /\ it.kind = "FieldIterator" =>
         LET s == Content(it.structure)
         IN  /\ \A i \in 0..(MaxIterFields + 1) :
                  /\ get_nth_field_name(s, i) # NoName <=> i < n_fields(s)
                  /\ get_nth_field_name(s, i) # NoName => Present(s, get_nth_field_name(s, i))
             /\ (last'.op = "next" /\ it' # NoIter) =>
                  /\ last'.f # NoName =>
                       /\ Present(s, last'.f)
                       /\ it.idx < n_fields(s)
                       /\ PositionOf(s, last'.f) = it.idx + 1
                  /\ it.idx >= n_fields(s) => (last'.f = NoName /\ it' = it)
             /\ (last'.op = "next_back" /\ it' # NoIter) =>
                  /\ last'.f # NoName =>
                       /\ Present(s, last'.f)
                       /\ it'.n_fields < n_fields(s)
                       /\ PositionOf(s, last'.f) = it'.n_fields + 1
                  /\ (it.idx # it.n_fields /\ it.n_fields - 1 >= n_fields(s)) => last'.f = NoName
                  /\ it'.n_fields >= 0

C17_SafeUnderRemoval == [][C17_Step]_vars

\* A FieldIterator made over three fields has just returned None from next at
\* index 1, left of its own end, because the structure has one field left.
C17_Witness ==
    /\ it.kind = "FieldIterator"
    /\ hist.n0 = 3
    /\ last.op = "next" /\ last.f = NoName
    /\ it.idx = 1 /\ it.n_fields = 3
    /\ Len(heap[it.structure].fields) = 1
    /\ view.st = "live" /\ view.ptr = it.structure

\* ----------------------------------------------------------------------- C18
\* C18: after any sequence of next and next_back calls on a FieldIterator,
\* 0 <= idx <= n_fields <= the field count at construction; so n_fields - idx
\* in size_hint and n_fields -= 1 in next_back do not go below zero, and
\* idx += 1 in next does not go above the field count at construction.
C18_CursorsInRange ==
    it.kind = "FieldIterator" =>
        LET s == Content(it.structure)
        IN  /\ 0 <= it.idx
            /\ it.idx <= it.n_fields
            /\ it.n_fields <= hist.n0
            /\ it.idx # Wrapped /\ it.n_fields # Wrapped
            /\ size_hint(it)[1] # Wrapped
            /\ size_hint(it)[1] = it.n_fields - it.idx
            /\ next_back(it, s).it.n_fields # Wrapped
            /\ next_back(it, s).it.n_fields >= it.idx
            /\ next(it, s).it.idx <= it.n_fields
            /\ last.op = "size_hint" => (last.list[1] >= 0 /\ last.list[1] <= hist.n0)

\* Over three fields, after two names from the front and one from the back,
\* both cursors stand at 2 and next_back has just returned None without
\* moving its cursor.
C18_Witness ==
    /\ it.kind = "FieldIterator"
    /\ hist.n0 = 3
    /\ Len(hist.fwd) = 2 /\ Len(hist.bwd) = 1
    /\ it.idx = 2 /\ it.n_fields = 2
    /\ last.op = "next_back" /\ last.f = NoName

\* ----------------------------------------------------------------------- C19
\* C19: on an unmutated structure with n fields a FieldIterator returns a name
\* at most n times in total: each call that returns a name adds one to the
\* names yielded, which never exceed n; a call returns None only when the
\* cursors have met; and once the cursors have met, as they have after any
\* call that returned None, every next and next_back returns None and leaves
\* both cursors as they are, whatever was called in between.
C19_Step ==
    (it.kind = "FieldIterator" /\ it'.kind = "FieldIterator" /\ last'.op \in {"next", "next_back"}) =>
        LET yielded == Len(hist.fwd) + Len(hist.bwd)
            yielded_ == Len(hist'.fwd) + Len(hist'.bwd)
        IN  /\ hist.n0 = n_fields(Content(it.structure))
            /\ yielded <= hist.n0 /\ yielded_ <= hist.n0
            /\ last'.f # NoName => yielded_ = yielded + 1
            /\ last'.f = NoName => (it.idx = it.n_fields /\ it' = it /\ yielded_ = yielded)
            /\ it.idx = it.n_fields => (last'.f = NoName /\ it' = it)
            /\ (last.op \in {"next", "next_back"} /\ last.f = NoName) =>
                  (it.idx = it.n_fields /\ last'.f = NoName /\ it' = it)
            /\ it'.idx = it'.n_fields =>
                  /\ next(it', Content(it.structure)) = [it |-> it', ret |-> NoName]
                  /\ next_back(it', Content(it.structure)) = [it |-> it', ret |-> NoName]

C19_FiniteNotRestartable == [][C19_Step]_vars

\* A FieldIterator over three fields has yielded all three from the front and
\* has just returned None from next_back; next returns None as well.
C19_Witness ==
    /\ it.kind = "FieldIterator"
    /\ hist.n0 = 3
    /\ Len(hist.fwd) = 3 /\ Len(hist.bwd) = 0
    /\ last.op = "next_back" /\ last.f = NoName
    /\ it.idx = it.n_fields
    /\ next(it, Content(it.structure)).ret = NoName

\* ----------------------------------------------------------------------- C20
NameTaking == {"new_empty", "get_value", "get", "set", "has_field", "remove_field"}

\* C20: new_empty, from_string, get_value, get, set, has_field and remove_field
\* abort exactly when their name or text argument holds a NUL byte: a call that
\* completes was given a NUL-free argument, and a call that aborted was given
\* one with a NUL inside; the abort comes before the store is called, so no
\* allocation is made, no handle appears, and every structure keeps its name,
\* fields and values.
C20_Step ==
    /\ last'.op \in NameTaking => last'.f \notin NulStrings
    /\ last'.op = "from_string" =>
         \A i \in 1..Len(last'.list) : last'.list[i] \notin NulStrings
    /\ (last'.op = "abort" /\ last'.of \in NameTaking) => last'.f \in NulStrings
    /\ (last'.op = "abort" /\ last'.of = "from_string") =>
         \E i \in 1..Len(last'.list) : last'.list[i] \in NulStrings
    /\ (last'.op = "abort" /\ last'.of \in NameTaking \cup {"from_string"}) =>
         /\ heap' = heap
         /\ handles' = handles
         /\ ext' = ext
    /\ \A h \in Hids, f \in NulStrings :
         handles'[h].st = "live" => ~Present(After(handles'[h].ptr), f)

C20_AbortOnInteriorNul == [][C20_Step]_vars

\* set has just aborted on a name with a NUL inside, on a structure that holds
\* a field under the name up to the NUL: the field and its value are as they were.
C20_Witness ==
    /\ last.op = "abort"
    /\ last.of = "set"
    /\ last.f = "f1<NUL>x"
    /\ handles[last.h].st = "live"
    /\ heap[handles[last.h].ptr].fields = <<[f |-> "f1", v |-> StrVal(1)]>>

====
